---- MODULE Spec2Model ----
(***************************************************************************)
(* Model of timezones/fields.py: the localized date-time field             *)
(* (TestDateTimeField), its per-instance accessor (TestDateTimeDescriptor)  *)
(* and the per-record time-zone resolver (get_timezone).                    *)
(*                                                                         *)
(* One record instance of a model with one localized date-time field is    *)
(* followed through assignments, reads, saves and reloads.  Time is        *)
(* counted in whole hours; a zone is a name with a fixed UTC offset, so     *)
(* localize() reinterprets a wall clock and astimezone() shifts it while    *)
(* keeping the instant.                                                    *)
(***************************************************************************)
EXTENDS Integers, FiniteSets, Sequences, TLC

(* ------------------------------ bounds --------------------------------- *)

\* number of distinct wall-clock hours an application may assign
NumHours == 1
\* number of distinct hours datetime.now() may read
NumClock == 1

(* ------------------------------ values --------------------------------- *)

\* Every Python value the model handles is a record of the same shape:
\* k is the kind, wall the wall-clock hour (date-times only), tz the zone
\* name (date-times: the tzinfo, "naive" when tzinfo is None).
Val(k, w, z) == [k |-> k, wall |-> w, tz |-> z]

\* Python None
None == Val("none", 0, "-")
\* key missing from instance.__dict__
Absent == Val("absent", 0, "-")
\* an exception propagated out of the operation
Error == Val("error", 0, "-")
\* datetime with wall clock w and tzinfo z ("naive": tzinfo is None)
DT(w, z) == Val("dt", w, z)
\* a string that DateTimeField.to_python parses to the naive datetime w
DtStr(w) == Val("dtstr", w, "naive")
\* a pytz tzinfo object
TZ(z) == Val("tz", 0, z)
\* a string naming a zone
Str(z) == Val("str", 0, z)
\* a bound method of the record returning the zone z
Method(z) == Val("method", 0, z)
\* a zero-argument callable (field declared with timezone=<callable>)
Callable == Val("callable", 0, "-")
\* a field declared with timezone="<attribute name>" (no "__" in it)
AttrName == Val("attr", 0, "-")
\* a field declared with timezone="rel__tz" (a lookup path)
LookupPath == Val("path", 0, "-")

Zones == {"UTC", "Chicago", "Moscow"}

\* pytz: utcoffset of the zone, in hours
Offset(z) ==
    CASE z = "UTC" -> 0
      [] z = "Chicago" -> 0 - 6
      [] z = "Moscow" -> 3
      [] OTHER -> 0

\* default_tz = pytz.timezone(settings.TIME_ZONE)
default_tz == "Chicago"
\* db_tz = pytz.utc
db_tz == "UTC"

IsDt(v) == v.k = "dt"
IsNaive(v) == v.tz = "naive"

\* tz.localize(value): the naive wall clock is read as a wall clock of tz
localize(z, v) == DT(v.wall, z)

\* value.astimezone(tz): same instant, wall clock of tz
astimezone(v, z) == DT(v.wall - Offset(v.tz) + Offset(z), z)

\* value.replace(tzinfo=None)
replace_tzinfo_none(v) == DT(v.wall, "naive")

\* DateTimeField.to_python: a datetime is returned as it is, a string is
\* parsed to a naive datetime, None stays None
to_python(v) ==
    IF v.k = "dtstr" THEN DT(v.wall, "naive") ELSE v

\* the UTC hour an aware date-time denotes
Instant(v) == v.wall - Offset(v.tz)

(* ------------------------------ inputs --------------------------------- *)

Hours == 9 .. (9 + NumHours - 1)

\* date-times application code may hand to the field
NaiveInputs == {DT(h, "naive") : h \in Hours}
AwareInputs == {DT(h, z) : h \in Hours, z \in Zones}
DateTimes == NaiveInputs \cup AwareInputs
\* values assigned through the public attribute
SetInputs == DateTimes \cup {None, DtStr(9)}
\* values placed in the storage attribute (fieldname_utc): what a driver
\* returns (naive, or aware in UTC) and what code may write there itself
CanonicalInputs ==
    {None} \cup {DT(h, z) : h \in Hours, z \in {"naive", "UTC", "Moscow"}}
\* hours datetime.now(db_tz) may read
Clock == 20 .. (20 + NumClock - 1)
\* arguments of the pure conversions
PrepInputs ==
    {None} \cup {DtStr(h) : h \in 0 .. 23}
        \cup {DT(h, z) : h \in 0 .. 23, z \in Zones \cup {"naive"}}

\* what the field may be declared with (the timezone= argument)
Declarations ==
    {None, Callable, AttrName, LookupPath} \cup {TZ(z) : z \in Zones}
        \cup {Str(z) : z \in Zones}

\* what a zone source may currently evaluate to
ZoneValues == {TZ("Moscow"), TZ("UTC"), Str("Moscow")}

\* the related record's cache entry holds None (instance._rel_cache = None)
RelNone == Val("relnone", 0, "-")
\* the lookup query matches no row
NoRow == Val("norow", 0, "-")

\* The part of the world a zone source reads.  cached: the related record is
\* in instance.__dict__['_rel_cache'] (lookup paths only).  val: what the
\* callable returns / the record's attribute holds / the related record's
\* column holds / the lookup query returns.
Env(c, v) == [cached |-> c, val |-> v]

EnvsOf(tz) ==
    CASE tz = Callable -> {Env(FALSE, v) : v \in ZoneValues}
      [] tz = AttrName ->
            {Env(FALSE, v) : v \in ZoneValues \cup {None, Method("Moscow")}}
      [] tz = LookupPath ->
            {Env(TRUE, v) : v \in ZoneValues \cup {None, RelNone}}
                \cup {Env(FALSE, v) : v \in {Str("Moscow"), None, NoRow}}
      [] OTHER -> {Env(FALSE, None)}

AutoModes == {"off", "auto_now", "auto_now_add"}
Engines == {"django.db.backends.mysql", "django.db.backends.postgresql_psycopg2"}

(* ------------------------------- state --------------------------------- *)

VARIABLES
    field,      \* the declared field: [decl, timezone, auto]
    env,        \* what the zone source reads (see Env)
    raw,        \* instance.__dict__[field.name]
    canonical,  \* instance.__dict__[field.attname]  (fieldname_utc)
    cache,      \* instance.__dict__[field.get_cache_name()]
    handed,     \* the value the last operation handed to the storage driver
                \* (Absent: it handed none)
    op,         \* the operation performed last
    arg,        \* its argument
    ret,        \* its result (Error: it raised)
    replaced,   \* history: the cache slot's content just before the last
                \* assignment through the accessor, kept until the read
                \* that follows it (Absent otherwise)
    again,      \* history: the previous result, when the last two operations
                \* were both get_for_save (Absent otherwise)
    saved,      \* history: the raw slot a save through get_for_save wrote
                \* to storage, kept over the reload and the read that
                \* follows it (Absent otherwise)
    tzfield     \* the TimeZoneField declaration: MAX_TIMEZONE_LENGTH, the
                \* keyword arguments given, the max_length of the field built

vars ==
    <<field, env, raw, canonical, cache, handed, op, arg, ret, replaced, again, saved,
      tzfield>>

(* --------------------------- the resolver ------------------------------ *)

\* Result of a call that may write the cache slot: the value returned and
\* the cache slot afterwards.
Res(r, c) == [ret |-> r, cache |-> c]

\* TestDateTimeField.__init__: a string naming a recognized zone becomes the
\* zone object, anything else is kept
field_init(timezone) ==
    IF timezone.k = "str" THEN TZ(timezone.tz) ELSE timezone

\* get_timezone, lines 149-176: the value of the source before coercion
\* (Error: the evaluation raised)
source_value(timezone, e) ==
    CASE timezone = Callable -> e.val
      [] timezone = AttrName ->
            IF e.val.k = "method" THEN TZ(e.val.tz) ELSE e.val
      [] OTHER ->
            IF e.cached
            THEN IF e.val = RelNone
                 THEN Error   \* None has no __dict__
                 ELSE IF e.val = None THEN TZ(default_tz) ELSE e.val
            ELSE IF e.val = NoRow
                 THEN Error   \* values_list(...)[0] of an empty result
                 ELSE IF e.val = None THEN TZ(default_tz) ELSE e.val

\* get_timezone(instance, timezone, cache_name). The walk over a dotted path
\* rebinds the name instance to the cached related record (line 164), so
\* line 181 then writes the related record's __dict__ and the cache slot of
\* the record itself stays as it was.
get_timezone(c, timezone, e) ==
    IF c # Absent
    THEN Res(IF IsDt(c) THEN (IF IsNaive(c) THEN None ELSE TZ(c.tz)) ELSE c, c)
    ELSE LET v == source_value(timezone, e)
             z == IF v.k = "str" THEN TZ(v.tz) ELSE v
         IN  IF v = Error THEN Res(Error, c)
             ELSE IF timezone = LookupPath /\ e.cached THEN Res(z, c)
             ELSE Res(z, z)

\* a contribute_to_class that installs the resolver for every declaration
timezone_attr_always_resolves(c, f, e) ==
    get_timezone(c, f.timezone, e)

\* getattr(instance, field.get_timezone_name()), as installed by
\* contribute_to_class
timezone_attr(c, f, e) ==
    IF f.timezone = None THEN Res(TZ(default_tz), c)
    ELSE IF f.timezone.k = "tz" THEN Res(f.timezone, c)
    ELSE get_timezone(c, f.timezone, e)

(* ------------------------- the TimeZone field -------------------------- *)

\* an integer (a max_length)
IntVal(n) == Val("int", n, "-")

\* len() of the zone's identifier: "UTC", "America/Chicago", "Europe/Moscow"
ZoneLen(z) ==
    CASE z = "UTC" -> 3
      [] z = "Chicago" -> 15
      [] z = "Moscow" -> 13
      [] OTHER -> 0

\* the module's MAX_TIMEZONE_LENGTH, the max_length keyword given to the
\* declaration (None: not given) and the max_length of the field built
\* (Absent: no field was built)
TzField(limit, kwarg, built) == [limit |-> limit, kwarg |-> kwarg, max_length |-> built]

\* timezones.utils.validate_timezone_max_length: every recognized identifier
\* fits in max_length (FALSE: it raises)
validate_timezone_max_length(max_length, zones) ==
    \A z \in zones : ZoneLen(z) <= max_length

\* TimeZoneField.__init__(**kwargs): the outcome and the max_length passed on
\* to CharField.__init__
TimeZoneField_init(limit, kwarg) ==
    IF ~validate_timezone_max_length(limit, Zones)
    THEN [ret |-> Error, max_length |-> Absent]
    ELSE [ret |-> None, max_length |-> IF kwarg = None THEN IntVal(limit) ELSE kwarg]

\* timezones.utils.coerce_timezone_value: the zone object of a recognized
\* name, InvalidTimeZone (Error) for any other string
coerce_timezone_value(v) ==
    IF v.tz \in Zones THEN TZ(v.tz) ELSE Error

\* smart_unicode / smart_str: a string stays, a zone object gives its name
smart_unicode(v) ==
    IF v.k = "tz" THEN Str(v.tz) ELSE v

\* TimeZoneField.to_python: CharField.to_python (a string or None stays, any
\* other object is turned into its unicode form), then coerce_timezone_value
TimeZoneField_to_python(v) ==
    LET value == smart_unicode(v)
    IN  IF value = None THEN None ELSE coerce_timezone_value(value)

\* a get_prep_value that hands the zone object on as it is
TimeZoneField_get_prep_value_raw(v) == v

\* TimeZoneField.get_prep_value
TimeZoneField_get_prep_value(v) ==
    IF v # None THEN smart_unicode(v) ELSE v

\* TimeZoneField.get_db_prep_save
TimeZoneField_get_db_prep_save(v) == TimeZoneField_get_prep_value(v)

(* --------------------------- the accessor ------------------------------ *)

\* the three slots of a record
Slots(r, cn, c) == [raw |-> r, canonical |-> cn, cache |-> c]

\* a __set__ that forgets to delete the cache entry
descriptor_set_keeps_cache(value, r, cn, c) ==
    Slots(value, Absent, c)

\* a __set__ that forgets to delete the storage attribute
descriptor_set_keeps_canonical(value, r, cn, c) ==
    Slots(value, cn, Absent)

\* TestDateTimeDescriptor.__set__(instance, value): r, cn, c are the raw,
\* canonical and cache slots before; the slots afterwards
descriptor_set(value, r, cn, c) ==
    Slots(value, Absent, Absent)

\* a __get__ that reads a naive stored value as a wall clock of the record's
\* zone instead of UTC
descriptor_get_localizes_stored(r, cn, c, f, e) ==
    IF IsDt(c) THEN Res(c, c)
    ELSE IF cn # Absent
    THEN IF cn # None
         THEN LET t == timezone_attr(c, f, e)
              IN  IF t.ret.k # "tz"
                  THEN Res(Error, t.cache)
                  ELSE LET out == IF IsNaive(cn)
                                  THEN localize(t.ret.tz, cn)
                                  ELSE astimezone(cn, t.ret.tz)
                       IN  Res(out, out)
         ELSE Res(None, None)
    ELSE IF r = Absent THEN Res(Error, c)
    ELSE IF IsDt(r)
         THEN LET t == timezone_attr(c, f, e)
              IN  IF t.ret.k # "tz"
                  THEN Res(Error, t.cache)
                  ELSE LET out == IF IsNaive(r)
                                  THEN localize(t.ret.tz, r)
                                  ELSE astimezone(r, t.ret.tz)
                       IN  Res(out, out)
         ELSE Res(r, c)

\* TestDateTimeDescriptor.__get__(instance): r, cn, c are the raw, canonical
\* and cache slots
descriptor_get(r, cn, c, f, e) ==
    IF IsDt(c) THEN Res(c, c)
    ELSE IF cn # Absent
    THEN IF cn # None
         THEN LET value == IF IsNaive(cn) THEN localize(db_tz, cn) ELSE cn
                  t == timezone_attr(c, f, e)
              IN  IF t.ret.k # "tz"
                  THEN Res(Error, t.cache)  \* the resolver raised, or astimezone(None)
                  ELSE LET out == astimezone(value, t.ret.tz) IN Res(out, out)
         ELSE Res(None, None)
    ELSE IF r = Absent THEN Res(Error, c)   \* KeyError
    ELSE IF IsDt(r)
         THEN LET t == timezone_attr(c, f, e)
              IN  IF t.ret.k # "tz"
                  THEN Res(Error, t.cache)  \* the resolver raised, or None.localize
                  ELSE LET out == IF IsNaive(r)
                                  THEN localize(t.ret.tz, r)
                                  ELSE astimezone(r, t.ret.tz)
                       IN  Res(out, out)
         ELSE Res(r, c)

\* a get_for_save that localizes a naive assignment in the process default
\* zone, as get_prep_value does
get_for_save_default_zone(r, cn, c, f, e) ==
    IF cn # Absent
    THEN Res(IF cn # None /\ IsNaive(cn) THEN localize(db_tz, cn) ELSE cn, c)
    ELSE IF r = Absent THEN Res(Error, c)
    ELSE LET value == to_python(r)
         IN  IF value # None
             THEN IF IsNaive(value)
                  THEN Res(astimezone(localize(default_tz, value), db_tz), c)
                  ELSE Res(astimezone(value, db_tz), c)
             ELSE Res(None, c)

\* a get_for_save that memoizes its result in the cache slot, as __get__ does
get_for_save_caches_result(r, cn, c, f, e) ==
    IF cn # Absent
    THEN Res(IF cn # None /\ IsNaive(cn) THEN localize(db_tz, cn) ELSE cn, c)
    ELSE IF r = Absent THEN Res(Error, c)
    ELSE LET value == to_python(r)
         IN  IF value # None
             THEN IF IsNaive(value)
                  THEN LET t == timezone_attr(c, f, e)
                       IN  IF t.ret.k # "tz"
                           THEN Res(Error, t.cache)
                           ELSE LET out == astimezone(localize(t.ret.tz, value), db_tz)
                                IN  Res(out, out)
                  ELSE LET out == astimezone(value, db_tz) IN Res(out, out)
             ELSE Res(None, c)

\* TestDateTimeDescriptor.get_for_save(instance)
get_for_save(r, cn, c, f, e) ==
    IF cn # Absent
    THEN Res(IF cn # None /\ IsNaive(cn) THEN localize(db_tz, cn) ELSE cn, c)
    ELSE IF r = Absent THEN Res(Error, c)   \* KeyError
    ELSE LET value == to_python(r)
         IN  IF value # None
             THEN IF IsNaive(value)
                  THEN LET t == timezone_attr(c, f, e)
                       IN  IF t.ret.k # "tz"
                           THEN Res(Error, t.cache)
                           ELSE Res(astimezone(localize(t.ret.tz, value), db_tz), t.cache)
                  ELSE Res(astimezone(value, db_tz), c)
             ELSE Res(None, c)

(* ----------------------------- the field ------------------------------- *)

\* a get_prep_value that reads a naive value as UTC
get_prep_value_naive_is_utc(v) ==
    LET value == to_python(v)
    IN  IF value # None
        THEN astimezone(IF IsNaive(value) THEN localize(db_tz, value) ELSE value, db_tz)
        ELSE value

\* TestDateTimeField.get_prep_value
get_prep_value(v) ==
    LET value == to_python(v)
    IN  IF value # None
        THEN astimezone(IF IsNaive(value) THEN localize(default_tz, value) ELSE value, db_tz)
        ELSE value

\* TestDateTimeField.get_db_prep_value: the value handed to
\* connection.ops.value_to_db_datetime
get_db_prep_value(v, engine, prepared) ==
    LET value == IF prepared THEN v ELSE get_prep_value(v)
    IN  IF value # None /\ engine = "django.db.backends.mysql"
        THEN replace_tzinfo_none(value)
        ELSE value

\* TestDateTimeField.get_db_prep_save
get_db_prep_save(value, engine) == get_db_prep_value(value, engine, TRUE)

\* TestDateTimeField.get_default: d is the declared default (None when the
\* field declares none)
get_default(d) == get_prep_value(d)

\* the record handed to _get_val_from_obj
Record == Val("record", 0, "-")

\* TestDateTimeField._get_val_from_obj(obj): obj is Record or None, d the
\* declared default. With a record, line 270 reads the name model_instance,
\* which is bound nowhere in the method or the module: NameError.
get_val_from_obj(obj, r, cn, c, f, e, d) ==
    IF obj # None THEN Res(Error, c) ELSE Res(get_default(d), c)

\* the slots and the value returned by pre_save
Pre(v, r, cn, c) == [ret |-> v, raw |-> r, canonical |-> cn, cache |-> c]

\* a pre_save that puts "now" in the storage attribute, past the accessor
pre_save_writes_storage(r, cn, c, f, e, add, clock) ==
    IF f.auto = "auto_now" \/ (f.auto = "auto_now_add" /\ add)
    THEN LET value == DT(clock, db_tz)
         IN  Pre(value, r, value, c)
    ELSE LET g == get_for_save(r, cn, c, f, e)
         IN  Pre(g.ret, r, cn, g.cache)

\* TestDateTimeField.pre_save(model_instance, add); clock is datetime.now's hour
pre_save(r, cn, c, f, e, add, clock) ==
    IF f.auto = "auto_now" \/ (f.auto = "auto_now_add" /\ add)
    THEN LET value == DT(clock, db_tz)
             s == descriptor_set(value, r, cn, c)
         IN  Pre(value, s.raw, s.canonical, s.cache)
    ELSE LET g == get_for_save(r, cn, c, f, e)
         IN  Pre(g.ret, r, cn, g.cache)

(* ----------------------------- operations ------------------------------ *)

Field(decl, auto) ==
    [decl |-> decl, timezone |-> field_init(decl), auto |-> auto]

\* pre_save takes the auto-populate branch
AutoPopulates(f, add) ==
    f.auto = "auto_now" \/ (f.auto = "auto_now_add" /\ add)

\* A model class is declared with one localized date-time field, and one
\* record is constructed: Model.__init__ puts the default in the storage
\* attribute.
Init ==
    \E decl \in Declarations, a \in AutoModes :
        /\ field = Field(decl, a)
        /\ env \in EnvsOf(field_init(decl))
        /\ raw = Absent
        /\ canonical = get_default(None)
        /\ cache = Absent
        /\ handed = Absent
        /\ op = "init"
        /\ arg = None
        /\ ret = None
        /\ replaced = Absent
        /\ again = Absent
        /\ saved = Absent
        /\ tzfield = TzField(100, None, Absent)

\* instance.name = value
Set(value) ==
    LET s == descriptor_set(value, raw, canonical, cache)
    IN  /\ raw' = s.raw
        /\ cache' = s.cache
        /\ canonical' = s.canonical
        /\ handed' = Absent
        /\ op' = "Set"
        /\ arg' = value
        /\ ret' = None
        /\ replaced' = cache
        /\ again' = Absent
        /\ saved' = Absent
        /\ UNCHANGED <<tzfield, field, env>>

\* instance.name
Get ==
    LET g == descriptor_get(raw, canonical, cache, field, env)
    IN  /\ cache' = g.cache
        /\ handed' = Absent
        /\ op' = "Get"
        /\ arg' = None
        /\ ret' = g.ret
        /\ replaced' = IF op \in {"Set", "Save"} THEN replaced ELSE Absent
        /\ again' = Absent
        /\ saved' = IF op = "Load" THEN saved ELSE Absent
        /\ UNCHANGED <<tzfield, field, env, raw, canonical>>

\* descriptor.get_for_save(instance)
GetForSave ==
    LET g == get_for_save(raw, canonical, cache, field, env)
    IN  /\ cache' = g.cache
        /\ handed' = Absent
        /\ op' = "GetForSave"
        /\ arg' = None
        /\ ret' = g.ret
        /\ replaced' = Absent
        /\ again' = IF op = "GetForSave" THEN ret ELSE Absent
        /\ saved' = Absent
        /\ UNCHANGED <<tzfield, field, env, raw, canonical>>

\* instance.name_timezone
ReadTimezone ==
    LET t == timezone_attr(cache, field, env)
    IN  /\ cache' = t.cache
        /\ handed' = Absent
        /\ op' = "ReadTimezone"
        /\ arg' = None
        /\ ret' = t.ret
        /\ replaced' = Absent
        /\ again' = Absent
        /\ saved' = Absent
        /\ UNCHANGED <<tzfield, field, env, raw, canonical>>

\* instance.name_utc = value: the storage attribute is written past the
\* accessor
WriteCanonical(value) ==
    /\ canonical' = value
    /\ handed' = Absent
    /\ op' = "WriteCanonical"
    /\ arg' = None
    /\ ret' = None
    /\ replaced' = Absent
    /\ again' = Absent
    /\ saved' = Absent
    /\ UNCHANGED <<tzfield, field, env, raw, cache>>

\* instance.save(): pre_save, then get_db_prep_save, then the driver.
\* arg records add, the hour datetime.now read and the driver's engine.
Save(add, engine, clock) ==
    LET p == pre_save(raw, canonical, cache, field, env, add, clock)
    IN  /\ raw' = p.raw
        /\ canonical' = p.canonical
        /\ cache' = p.cache
        /\ op' = "Save"
        /\ arg' = Val(IF add THEN "add" ELSE "update", clock, engine)
        /\ ret' = p.ret
        /\ handed' = IF p.ret = Error THEN Absent ELSE get_db_prep_save(p.ret, engine)
        /\ replaced' = IF AutoPopulates(field, add) THEN cache ELSE Absent
        /\ again' = Absent
        /\ saved' = IF ~AutoPopulates(field, add) /\ canonical = Absent /\ p.ret # Error
                    THEN raw
                    ELSE Absent
        /\ UNCHANGED <<tzfield, field, env>>

\* the row just written is read back into a fresh record: the stored value
\* goes to the storage attribute
Load ==
    /\ handed # Absent
    /\ raw' = Absent
    /\ canonical' = handed
    /\ cache' = Absent
    /\ handed' = Absent
    /\ op' = "Load"
    /\ arg' = None
    /\ ret' = None
    /\ replaced' = Absent
    /\ again' = Absent
    /\ UNCHANGED <<tzfield, field, env, saved>>

\* what the zone source reads changes
SetEnv(e) ==
    /\ e # env
    /\ env' = e
    /\ handed' = Absent
    /\ op' = "SetEnv"
    /\ arg' = None
    /\ ret' = None
    /\ replaced' = Absent
    /\ again' = Absent
    /\ saved' = Absent
    /\ UNCHANGED <<tzfield, field, raw, canonical, cache>>

Next ==
    \/ \E value \in SetInputs : Set(value)
    \/ Get
    \/ GetForSave
    \/ ReadTimezone
    \/ \E value \in CanonicalInputs : WriteCanonical(value)
    \/ \E add \in BOOLEAN, engine \in Engines, clock \in Clock : Save(add, engine, clock)
    \/ Load
    \/ \E e \in EnvsOf(field.timezone) : SetEnv(e)

Spec == Init /\ [][Next]_vars

(* ----------------- the conversions that take no record ----------------- *)

\* field.get_prep_value(arg)
PrepValue ==
    /\ op' = "PrepValue"
    /\ ret' = get_prep_value(arg)
    /\ UNCHANGED <<tzfield, field, env, raw, canonical, cache, handed, arg, replaced, again, saved>>

\* field.get_default() of a field declared with default=arg
GetDefault ==
    /\ op' = "GetDefault"
    /\ ret' = get_default(arg)
    /\ UNCHANGED <<tzfield, field, env, raw, canonical, cache, handed, arg, replaced, again, saved>>

\* field._get_val_from_obj(obj), the serializer's read, of a field declared
\* with default=arg
GetValFromObj(obj) ==
    LET v == get_val_from_obj(obj, raw, canonical, cache, field, env, arg)
    IN  /\ op' = IF obj = None THEN "GetValFromObj(None)" ELSE "GetValFromObj(obj)"
        /\ ret' = v.ret
        /\ cache' = v.cache
        /\ UNCHANGED <<tzfield, field, env, raw, canonical, handed, arg, replaced, again, saved>>

\* Every declaration of the field and every argument, then the call.
InitPrep ==
    \E decl \in Declarations :
        /\ field = Field(decl, "off")
        /\ env \in EnvsOf(field_init(decl))
        /\ raw = Absent
        /\ canonical = get_default(None)
        /\ cache = Absent
        /\ handed = Absent
        /\ op = "init"
        /\ arg \in PrepInputs
        /\ ret = None
        /\ replaced = Absent
        /\ again = Absent
        /\ saved = Absent
        /\ tzfield = TzField(100, None, Absent)

NextPrep ==
    \/ PrepValue
    \/ GetDefault
    \/ \E obj \in {Record, None} : GetValFromObj(obj)

SpecPrep == InitPrep /\ [][NextPrep]_vars

(* ------------------------- the TimeZone field -------------------------- *)

\* lengths a MAX_TIMEZONE_LENGTH setting or a max_length keyword may have
Lengths == 12 .. 18

\* values handed to TimeZoneField.to_python
TzInputs ==
    {None, Str("Not/AZone"), Str("")}
        \cup {Str(z) : z \in Zones} \cup {TZ(z) : z \in Zones}

\* class M(Model): tz = TimeZoneField(max_length=kwarg), or TimeZoneField()
DeclareTimeZoneField(kwarg) ==
    LET r == TimeZoneField_init(tzfield.limit, kwarg)
    IN  /\ tzfield.max_length = Absent
        /\ tzfield' = TzField(tzfield.limit, kwarg, r.max_length)
        /\ op' = "TimeZoneField"
        /\ ret' = r.ret
        /\ UNCHANGED <<field, env, raw, canonical, cache, handed, arg, replaced, again, saved>>

\* field.to_python(arg)
TzToPython ==
    /\ tzfield.max_length # Absent
    /\ op' = "to_python"
    /\ ret' = TimeZoneField_to_python(arg)
    /\ handed' = Absent
    /\ UNCHANGED <<tzfield, field, env, raw, canonical, cache, arg, replaced, again, saved>>

\* the converted value is saved: field.get_db_prep_save(ret, connection)
TzSave ==
    /\ op = "to_python"
    /\ ret # Error
    /\ op' = "tz_save"
    /\ handed' = TimeZoneField_get_db_prep_save(ret)
    /\ UNCHANGED <<tzfield, field, env, raw, canonical, cache, arg, ret, replaced, again, saved>>

\* Every MAX_TIMEZONE_LENGTH setting and every value; then the declaration
\* and the conversions.
InitTz ==
    /\ tzfield \in {TzField(l, None, Absent) : l \in Lengths \cup {100}}
    /\ field = Field(None, "off")
    /\ env = Env(FALSE, None)
    /\ raw = Absent
    /\ canonical = Absent
    /\ cache = Absent
    /\ handed = Absent
    /\ op = "init"
    /\ arg \in TzInputs
    /\ ret = None
    /\ replaced = Absent
    /\ again = Absent
    /\ saved = Absent

NextTz ==
    \/ \E kwarg \in {None} \cup {IntVal(n) : n \in Lengths} : DeclareTimeZoneField(kwarg)
    \/ TzToPython
    \/ TzSave

SpecTz == InitTz /\ [][NextTz]_vars

(* ------------------------------- claims -------------------------------- *)

\* what reading instance.name_timezone returns in the current state
ZoneNow == timezone_attr(cache, field, env).ret

\* the date-time v as the accessor presents it in zone z: a naive v is a
\* wall clock of z, an aware v keeps its instant
InZone(v, z) ==
    IF IsNaive(v) THEN DT(v.wall, z) ELSE DT(Instant(v) + Offset(z), z)

\* C1: when a read has filled the cache slot with a date-time and a new
\* date-time is then assigned, the very next read returns the new value in the
\* record's resolved zone, never the date-time the cache held.
C1_CacheInvalidation ==
    [][(/\ op = "Set"
        /\ IsDt(replaced)
        /\ IsDt(raw)
        /\ ZoneNow.k = "tz"
        /\ op' = "Get")
       => ret' = InZone(raw, ZoneNow.tz)]_vars

\* a read right after an assignment that replaced a cached date-time of
\* another instant
C1_Witness ==
    /\ op = "Get"
    /\ IsDt(replaced)
    /\ IsDt(raw)
    /\ raw.wall \in Hours
    /\ canonical = Absent
    /\ IsDt(ret)
    /\ ret.tz # default_tz
    /\ Instant(ret) # Instant(replaced)

\* C2: an aware date-time assigned, saved through get_for_save and read back
\* into a fresh record is returned by the accessor as the same instant,
\* expressed in the fresh record's resolved zone.
C2_RoundTrip ==
    [][(/\ op = "Load"
        /\ IsDt(saved)
        /\ ~IsNaive(saved)
        /\ ZoneNow.k = "tz"
        /\ op' = "Get")
       => ret' = DT(Instant(saved) + Offset(ZoneNow.tz), ZoneNow.tz)]_vars

\* a read of a reloaded record whose zone differs from the zone of the value
\* that was saved
C2_Witness ==
    /\ op = "Get"
    /\ raw = Absent
    /\ IsDt(saved)
    /\ ~IsNaive(saved)
    /\ IsDt(ret)
    /\ ret.tz # saved.tz
    /\ Instant(ret) = Instant(saved)

\* C3: a naive date-time assigned through the accessor is returned by
\* get_for_save as that wall clock in the record's resolved zone, converted
\* to UTC.
C3_NaiveAssignment ==
    [][(/\ op = "Set"
        /\ IsDt(raw)
        /\ IsNaive(raw)
        /\ ZoneNow.k = "tz"
        /\ op' = "GetForSave")
       => ret' = DT(raw.wall - Offset(ZoneNow.tz), "UTC")]_vars

\* get_for_save has localized a naive assignment in a resolved zone that is
\* not the process default zone
C3_Witness ==
    /\ op = "GetForSave"
    /\ canonical = Absent
    /\ IsDt(raw)
    /\ IsNaive(raw)
    /\ field.timezone = AttrName
    /\ cache = TZ("Moscow")
    /\ ret = DT(raw.wall - 3, "UTC")

\* C4: get_prep_value and get_default map a naive date-time to that wall
\* clock in the process default zone converted to UTC, whatever the field's
\* zone source; an aware date-time to the same instant in UTC; None to None.
C4_PrepValue ==
    (op \in {"PrepValue", "GetDefault"}) =>
        /\ arg = None => ret = None
        /\ (IsDt(arg) /\ IsNaive(arg)) => ret = DT(arg.wall - Offset(default_tz), "UTC")
        /\ (IsDt(arg) /\ ~IsNaive(arg)) => ret = DT(Instant(arg), "UTC")

\* a naive default was prepared for a field whose zone is Moscow
C4_Witness ==
    /\ op = "GetDefault"
    /\ IsDt(arg)
    /\ IsNaive(arg)
    /\ field.timezone = TZ("Moscow")
    /\ ret = DT(arg.wall + 6, "UTC")

\* C5: whenever get_for_save returns a date-time, it is aware with zone UTC.
C5_GetForSaveIsUTC ==
    (op = "GetForSave" /\ IsDt(ret)) => ret.tz = "UTC"

\* the failure cases of a lookup path: the cached related record is None, the
\* lookup query finds no row, the column holds no value
LookupFails(e) ==
    e.val \in {RelNone, NoRow, None}

\* C6: resolving a lookup path never fails, and yields the process default
\* zone when the related record is None, the query finds no row or the column
\* holds no value.
C6_LookupFallback ==
    [][(/\ field.timezone = LookupPath
        /\ cache = Absent
        /\ LookupFails(env)
        /\ op' = "ReadTimezone")
       => ret' = TZ(default_tz)]_vars

\* C7: reading the record's zone yields a zone object, never None and never
\* a string (a read that raises is the subject of C6).
C7_ZoneIsZoneObject ==
    (op = "ReadTimezone" /\ ret # Error) => ret.k = "tz"

\* two results denote the same outcome: both raised, both None, or both
\* aware date-times of the same instant
SameResult(a, b) ==
    \/ a = Error /\ b = Error
    \/ a = None /\ b = None
    \/ /\ IsDt(a) /\ IsDt(b)
       /\ ~IsNaive(a) /\ ~IsNaive(b)
       /\ Instant(a) = Instant(b)

\* C8: two consecutive get_for_save calls return the same UTC instant (or both
\* None), and no get_for_save call changes the raw or the canonical slot.
C8_GetForSaveIdempotent ==
    /\ []((op = "GetForSave" /\ again # Absent) => SameResult(again, ret))
    /\ [][op' = "GetForSave" => (raw' = raw /\ canonical' = canonical)]_vars

\* a second get_for_save in a row on a naive assignment
C8_Witness ==
    /\ op = "GetForSave"
    /\ again # Absent
    /\ canonical = Absent
    /\ IsDt(raw)
    /\ IsNaive(raw)
    /\ IsDt(ret)
    /\ field.timezone = Callable

\* the add flag recorded with a save
Adding(a) == a.k = "add"

\* C9: an auto-populating pre_save returns the current time as an aware UTC
\* value after assigning it through the accessor (raw holds it, cache and
\* canonical are deleted), and the read that follows returns that instant in
\* the record's resolved zone; any other pre_save returns what get_for_save
\* returns and changes neither raw nor canonical.
C9_PreSave ==
    /\ [][(op' = "Save" /\ AutoPopulates(field, Adding(arg')))
          => /\ ret' = DT(arg'.wall, "UTC")
             /\ raw' = ret'
             /\ cache' = Absent
             /\ canonical' = Absent]_vars
    /\ [][(/\ op = "Save"
           /\ AutoPopulates(field, Adding(arg))
           /\ ZoneNow.k = "tz"
           /\ op' = "Get")
          => ret' = DT(arg.wall + Offset(ZoneNow.tz), ZoneNow.tz)]_vars
    /\ [][(op' = "Save" /\ ~AutoPopulates(field, Adding(arg')))
          => /\ ret' = get_for_save(raw, canonical, cache, field, env).ret
             /\ raw' = raw
             /\ canonical' = canonical]_vars

\* a read after an auto-populating save that replaced a cached date-time of
\* another instant
C9_Witness ==
    /\ op = "Get"
    /\ canonical = Absent
    /\ raw.tz = "UTC"
    /\ raw.wall \in Clock
    /\ IsDt(replaced)
    /\ Instant(replaced) # raw.wall
    /\ ret = DT(raw.wall + 3, "Moscow")

\* C10: the value handed to the driver on save is, for the MySQL engine, naive
\* with the UTC wall clock of the instant the record holds, and for any other
\* engine that instant as an aware UTC value.
C10_DriverValue ==
    (op = "Save" /\ IsDt(ret) /\ ~IsNaive(ret)) =>
        IF arg.tz = "django.db.backends.mysql"
        THEN handed = DT(Instant(ret), "naive")
        ELSE handed = DT(Instant(ret), "UTC")

\* the max_length configured for the declared TimeZone field
ConfiguredMaxLength ==
    IF tzfield.kwarg = None THEN tzfield.limit ELSE tzfield.kwarg.wall

\* the longest recognized identifier does not fit in n characters
TooShort(n) == \E z \in Zones : ZoneLen(z) > n

\* C11: declaring a TimeZone field fails exactly when the max_length configured
\* for it (the default, or the max_length keyword) is smaller than the longest
\* recognized zone identifier.
C11_MaxLengthChecked ==
    (op = "TimeZoneField") => (ret = Error <=> TooShort(ConfiguredMaxLength))

\* C12: to_python fails with InvalidTimeZone for every string that is no
\* recognized zone name, returns None for None, and a recognized name that is
\* converted and saved is stored as exactly that name.
C12_TimeZoneConversion ==
    /\ (op = "to_python" /\ arg.k = "str" /\ arg.tz \notin Zones) => ret = Error
    /\ (op = "to_python" /\ arg = None) => ret = None
    /\ (op = "tz_save" /\ arg.k = "str") => handed = arg

\* "UTC" was converted to the zone object and stored as "UTC"
C12_Witness ==
    /\ op = "tz_save"
    /\ arg = Str("UTC")
    /\ ret = TZ("UTC")
    /\ handed = Str("UTC")

\* C13 as stated: with process default zone America/Chicago, the naive 09:00
\* assigned to a record whose zone resolves to Europe/Moscow is saved as
\* 15:00 UTC (the wall clock read in the default zone).
C13_SavedAsDefaultZone ==
    [][(/\ op = "Set"
        /\ raw = DT(9, "naive")
        /\ default_tz = "Chicago"
        /\ ZoneNow = TZ("Moscow")
        /\ op' = "GetForSave")
       => ret' = DT(15, "UTC")]_vars

\* C13: with process default zone America/Chicago, the naive 09:00 assigned to
\* a record whose zone resolves to Europe/Moscow is saved as 06:00 UTC: the
\* wall clock is read in the record's zone, not in the default zone.
C13_SavedAsRecordZone ==
    [][(/\ op = "Set"
        /\ raw = DT(9, "naive")
        /\ default_tz = "Chicago"
        /\ ZoneNow = TZ("Moscow")
        /\ op' = "GetForSave")
       => ret' = DT(6, "UTC")]_vars

\* 09:00 was assigned to a record of a field declared with the zone
\* Europe/Moscow and get_for_save gave 06:00 UTC
C13_Witness ==
    /\ op = "GetForSave"
    /\ field.timezone = TZ("Moscow")
    /\ raw = DT(9, "naive")
    /\ canonical = Absent
    /\ ret = DT(6, "UTC")

\* the declaration names a callable, an attribute or a dotted path
ResolverBacked == field.decl \in {Callable, AttrName, LookupPath}

\* the declaration names a dotted path and the related record is loaded, so
\* the resolver walks to it
PathWalked == field.decl = LookupPath /\ env.cached

\* C14: a field declared with no zone source gives every record the process
\* default zone; a field declared with a zone object, or with a string naming
\* a recognized zone, gives every record exactly that zone, whatever the
\* record's slots hold; only callable, attribute-name and dotted-path
\* declarations go through the resolver, which alone leaves a bare zone in
\* the cache slot and answers from a filled cache slot.
C14_ZoneSourceSelection ==
    /\ field.decl = None => ZoneNow = TZ(default_tz)
    /\ \A z \in Zones : field.decl \in {TZ(z), Str(z)} => ZoneNow = TZ(z)
    /\ ~ResolverBacked => (cache.k # "tz" /\ (op = "ReadTimezone" => ret = ZoneNow))
    /\ (ResolverBacked /\ cache # Absent)
          => ZoneNow = (IF IsDt(cache) THEN TZ(cache.tz) ELSE cache)

\* a record of a field declared with the string "Europe/Moscow" that holds a
\* cached date-time and a storage value reads its zone as Europe/Moscow
C14_Witness ==
    /\ field.decl = Str("Moscow")
    /\ op = "ReadTimezone"
    /\ IsDt(cache)
    /\ IsDt(canonical)
    /\ ret = TZ("Moscow")

\* what the cache slot may hold
CacheContents ==
    {Absent, None} \cup {TZ(z) : z \in Zones} \cup {DT(9, z) : z \in Zones}

\* get_for_save has to ask the resolver for the record's zone: a naive value
\* was assigned and the declaration names a callable, an attribute or a path
AsksResolver ==
    /\ ResolverBacked
    /\ canonical = Absent
    /\ raw # Absent
    /\ to_python(raw) # None
    /\ IsNaive(to_python(raw))

\* C15 as stated: get_for_save neither reads nor writes the cache slot: the
\* slot is the same afterwards, and the result is the same whatever the slot
\* holds.
C15_CacheNeverTouched ==
    [][op' = "GetForSave"
       => /\ cache' = cache
          /\ \A c \in CacheContents :
                get_for_save(raw, canonical, c, field, env).ret = ret']_vars

\* C15: get_for_save never stores a date-time in the cache slot. Unless it has
\* to ask the resolver (a naive assigned value, a callable, attribute or path
\* declaration), it leaves the slot alone and its result is the same whatever
\* the slot holds; when it asks the resolver, a filled slot is left as it is
\* and answers the question, and an empty slot receives what the source
\* evaluates to (and stays empty when the evaluation fails or walks a dotted
\* path to a loaded related record).
C15_CacheOnlyThroughResolver ==
    [][op' = "GetForSave"
       => /\ IsDt(cache') => cache' = cache
          /\ ~AsksResolver
                => /\ cache' = cache
                   /\ \A c \in CacheContents :
                         get_for_save(raw, canonical, c, field, env).ret = ret'
          /\ (AsksResolver /\ cache # Absent)
                => /\ cache' = cache
                   /\ ZoneNow.k = "tz"
                         => ret' = DT(to_python(raw).wall - Offset(ZoneNow.tz), "UTC")
          /\ (AsksResolver /\ cache = Absent)
                => cache' = (IF ZoneNow = Error \/ PathWalked THEN Absent ELSE ZoneNow)]_vars

\* get_for_save on a naive assigned value of a record with an attribute-named
\* zone left the bare zone in the cache slot
C15_Witness ==
    /\ op = "GetForSave"
    /\ field.decl = AttrName
    /\ canonical = Absent
    /\ IsDt(raw)
    /\ IsNaive(raw)
    /\ cache = TZ("Moscow")
    /\ ret = DT(raw.wall - 3, "UTC")

\* C16: whenever the canonical slot holds a date-time, a read through the
\* accessor that returns a date-time returns the canonical value (read as UTC
\* when naive), converted into the record's zone: it denotes the instant the
\* canonical slot denotes, not that of an assigned value or an earlier read.
C16_CanonicalWins ==
    (op = "Get" /\ IsDt(canonical) /\ IsDt(ret))
        => Instant(ret) = Instant(IF IsNaive(canonical)
                                  THEN localize(db_tz, canonical)
                                  ELSE canonical)

\* C17: right after an assignment through the accessor the raw slot holds
\* exactly the assigned value and the cache and canonical slots are absent, so
\* a read and get_for_save are determined by the assigned value (and the zone
\* the record resolves to) alone: a read gives a date-time in the record's
\* zone and anything else as assigned; get_for_save gives the parsed value in
\* UTC, a naive one read as a wall clock of the record's zone.
C17_AfterSet ==
    op = "Set"
        => LET value == to_python(arg)
               g == descriptor_get(raw, canonical, cache, field, env).ret
               s == get_for_save(raw, canonical, cache, field, env).ret
           IN  /\ raw = arg
               /\ cache = Absent
               /\ canonical = Absent
               /\ ~IsDt(arg) => g = arg
               /\ (IsDt(arg) /\ ZoneNow.k = "tz") => g = InZone(arg, ZoneNow.tz)
               /\ arg = None => s = None
               /\ (arg # None /\ ~IsNaive(value)) => s = DT(Instant(value), "UTC")
               /\ (arg # None /\ IsNaive(value) /\ ZoneNow.k = "tz")
                     => s = DT(value.wall - Offset(ZoneNow.tz), "UTC")

\* a date-time was assigned to a record whose cache slot held a date-time of
\* another instant
C17_Witness ==
    /\ op = "Set"
    /\ IsDt(arg)
    /\ ~IsNaive(arg)
    /\ IsDt(replaced)
    /\ Instant(replaced) # Instant(arg)
    /\ cache = Absent
    /\ canonical = Absent

\* the operation o asks the resolver for the record's zone (the slots a read
\* looks at are not changed by reads)
Consults(o) ==
    \/ o = "ReadTimezone"
    \/ o = "GetForSave" /\ AsksResolver
    \/ o = "Get" /\ (IsDt(canonical) \/ (canonical = Absent /\ IsDt(raw)))

\* C18: between two assignments the zone source of a record is evaluated at
\* most once: a read that evaluated it (the cache slot was empty and it
\* returned a zone) is never followed by a read that evaluates it again; and
\* a zone read on a filled cache slot returns the cached date-time's zone, or
\* the cached bare zone, and leaves the slot as it is.
C18_ResolverCaching ==
    [][ResolverBacked
       => /\ ~(/\ cache = Absent
               /\ Consults(op)
               /\ ret # Error
               /\ Consults(op'))
          /\ (cache # Absent /\ op' = "ReadTimezone")
                => /\ ret' = (IF IsDt(cache) THEN TZ(cache.tz) ELSE cache)
                   /\ cache' = cache]_vars

\* C19: in every reachable state the read through the accessor and
\* get_for_save agree: when both return date-times these denote the same
\* instant, and the read returns None exactly when get_for_save returns None.
C19_GetAgreesWithGetForSave ==
    LET g == descriptor_get(raw, canonical, cache, field, env).ret
        s == get_for_save(raw, canonical, cache, field, env).ret
    IN  /\ (IsDt(g) /\ IsDt(s)) => Instant(g) = Instant(s)
        /\ g = None <=> s = None

\* C20: the serializer's read completes without error for every record:
\* given a record it returns what a read through the accessor returns, and
\* given no record it returns the declared default normalized to UTC by
\* get_prep_value.
C20_SerializationRead ==
    /\ op = "GetValFromObj(obj)"
          => /\ ret # Error
             /\ ret = descriptor_get(raw, canonical, cache, field, env).ret
    /\ op = "GetValFromObj(None)" => ret = get_prep_value(arg)

====
